---- MODULE Spec2Model ----
(***************************************************************************)
(* Model of the per-connection worker of pushgo (simplepush.Worker):      *)
(* the sniffer goroutine, the Run loop with its handlers (Hello, Ack,     *)
(* Register, Unregister, Ping, Flush), and the dispatcher the worker      *)
(* talks to over sock.Scmd / sock.Ccmd.                                   *)
(*                                                                         *)
(* Strings are sequences of Unicode code points, JSON values are records  *)
(* [t, s, n, e], a util.JsMap is a function from field names to JSON      *)
(* values.                                                                 *)
(***************************************************************************)
EXTENDS Integers, Sequences, FiniteSets, TLC

\* ------------------------------------------------------------------ bounds
\* number of frames the client sends on the socket
MaxFrames == 3
\* number of commands the dispatcher pushes on sock.Ccmd
MaxCmds == 1

\* --------------------------------------------------------------- constants
INACTIVE == 0
ACTIVE == 1
UAID_MAX_LEN == 100
CHID_MAX_LEN == 100

\* ----------------------------------------------------------------- strings
Rep(c, n) == [i \in 1..n |-> c]

S_hello == <<104, 101, 108, 108, 111>>
S_HELLO == <<72, 69, 76, 76, 79>>
S_ack == <<97, 99, 107>>
S_register == <<114, 101, 103, 105, 115, 116, 101, 114>>
S_unregister == <<117, 110, 114, 101, 103, 105, 115, 116, 101, 114>>
S_ping == <<112, 105, 110, 103>>
S_PING == <<80, 73, 78, 71>>
\* "P\u0130NG", whose lower case is "ping"
S_PdotNG == <<80, 304, 78, 71>>
S_notification == <<110, 111, 116, 105, 102, 105, 99, 97, 116, 105, 111, 110>>
S_bogus == <<98, 111, 103, 117, 115>>

\* the simple lower-case mapping of the unicode package (UnicodeData 13,
\* 1393 runes) as <<first, last, stride, delta>>: the runes first,
\* first + stride, ..., last map to themselves plus delta. U+0130 maps to
\* 'i' and the Kelvin sign U+212A to 'k'.
LowerRanges ==
    { <<65, 90, 1, 32>>, <<192, 214, 1, 32>>, <<216, 222, 1, 32>>,
      <<256, 302, 2, 1>>, <<304, 304, 1, -199>>, <<306, 310, 2, 1>>,
      <<313, 327, 2, 1>>, <<330, 374, 2, 1>>, <<376, 376, 1, -121>>,
      <<377, 381, 2, 1>>, <<385, 385, 1, 210>>, <<386, 388, 2, 1>>,
      <<390, 390, 1, 206>>, <<391, 391, 1, 1>>, <<393, 394, 1, 205>>,
      <<395, 395, 1, 1>>, <<398, 398, 1, 79>>, <<399, 399, 1, 202>>,
      <<400, 400, 1, 203>>, <<401, 401, 1, 1>>, <<403, 403, 1, 205>>,
      <<404, 404, 1, 207>>, <<406, 406, 1, 211>>, <<407, 407, 1, 209>>,
      <<408, 408, 1, 1>>, <<412, 412, 1, 211>>, <<413, 413, 1, 213>>,
      <<415, 415, 1, 214>>, <<416, 420, 2, 1>>, <<422, 422, 1, 218>>,
      <<423, 423, 1, 1>>, <<425, 425, 1, 218>>, <<428, 428, 1, 1>>,
      <<430, 430, 1, 218>>, <<431, 431, 1, 1>>, <<433, 434, 1, 217>>,
      <<435, 437, 2, 1>>, <<439, 439, 1, 219>>, <<440, 440, 1, 1>>,
      <<444, 444, 1, 1>>, <<452, 452, 1, 2>>, <<453, 453, 1, 1>>,
      <<455, 455, 1, 2>>, <<456, 456, 1, 1>>, <<458, 458, 1, 2>>,
      <<459, 475, 2, 1>>, <<478, 494, 2, 1>>, <<497, 497, 1, 2>>,
      <<498, 500, 2, 1>>, <<502, 502, 1, -97>>, <<503, 503, 1, -56>>,
      <<504, 542, 2, 1>>, <<544, 544, 1, -130>>, <<546, 562, 2, 1>>,
      <<570, 570, 1, 10795>>, <<571, 571, 1, 1>>, <<573, 573, 1, -163>>,
      <<574, 574, 1, 10792>>, <<577, 577, 1, 1>>, <<579, 579, 1, -195>>,
      <<580, 580, 1, 69>>, <<581, 581, 1, 71>>, <<582, 590, 2, 1>>,
      <<880, 882, 2, 1>>, <<886, 886, 1, 1>>, <<895, 895, 1, 116>>,
      <<902, 902, 1, 38>>, <<904, 906, 1, 37>>, <<908, 908, 1, 64>>,
      <<910, 911, 1, 63>>, <<913, 929, 1, 32>>, <<931, 939, 1, 32>>,
      <<975, 975, 1, 8>>, <<984, 1006, 2, 1>>, <<1012, 1012, 1, -60>>,
      <<1015, 1015, 1, 1>>, <<1017, 1017, 1, -7>>, <<1018, 1018, 1, 1>>,
      <<1021, 1023, 1, -130>>, <<1024, 1039, 1, 80>>, <<1040, 1071, 1, 32>>,
      <<1120, 1152, 2, 1>>, <<1162, 1214, 2, 1>>, <<1216, 1216, 1, 15>>,
      <<1217, 1229, 2, 1>>, <<1232, 1326, 2, 1>>, <<1329, 1366, 1, 48>>,
      <<4256, 4293, 1, 7264>>, <<4295, 4295, 1, 7264>>, <<4301, 4301, 1, 7264>>,
      <<5024, 5103, 1, 38864>>, <<5104, 5109, 1, 8>>, <<7312, 7354, 1, -3008>>,
      <<7357, 7359, 1, -3008>>, <<7680, 7828, 2, 1>>, <<7838, 7838, 1, -7615>>,
      <<7840, 7934, 2, 1>>, <<7944, 7951, 1, -8>>, <<7960, 7965, 1, -8>>,
      <<7976, 7983, 1, -8>>, <<7992, 7999, 1, -8>>, <<8008, 8013, 1, -8>>,
      <<8025, 8031, 2, -8>>, <<8040, 8047, 1, -8>>, <<8072, 8079, 1, -8>>,
      <<8088, 8095, 1, -8>>, <<8104, 8111, 1, -8>>, <<8120, 8121, 1, -8>>,
      <<8122, 8123, 1, -74>>, <<8124, 8124, 1, -9>>, <<8136, 8139, 1, -86>>,
      <<8140, 8140, 1, -9>>, <<8152, 8153, 1, -8>>, <<8154, 8155, 1, -100>>,
      <<8168, 8169, 1, -8>>, <<8170, 8171, 1, -112>>, <<8172, 8172, 1, -7>>,
      <<8184, 8185, 1, -128>>, <<8186, 8187, 1, -126>>, <<8188, 8188, 1, -9>>,
      <<8486, 8486, 1, -7517>>, <<8490, 8490, 1, -8383>>, <<8491, 8491, 1, -8262>>,
      <<8498, 8498, 1, 28>>, <<8544, 8559, 1, 16>>, <<8579, 8579, 1, 1>>,
      <<9398, 9423, 1, 26>>, <<11264, 11310, 1, 48>>, <<11360, 11360, 1, 1>>,
      <<11362, 11362, 1, -10743>>, <<11363, 11363, 1, -3814>>, <<11364, 11364, 1, -10727>>,
      <<11367, 11371, 2, 1>>, <<11373, 11373, 1, -10780>>, <<11374, 11374, 1, -10749>>,
      <<11375, 11375, 1, -10783>>, <<11376, 11376, 1, -10782>>, <<11378, 11378, 1, 1>>,
      <<11381, 11381, 1, 1>>, <<11390, 11391, 1, -10815>>, <<11392, 11490, 2, 1>>,
      <<11499, 11501, 2, 1>>, <<11506, 11506, 1, 1>>, <<42560, 42604, 2, 1>>,
      <<42624, 42650, 2, 1>>, <<42786, 42798, 2, 1>>, <<42802, 42862, 2, 1>>,
      <<42873, 42875, 2, 1>>, <<42877, 42877, 1, -35332>>, <<42878, 42886, 2, 1>>,
      <<42891, 42891, 1, 1>>, <<42893, 42893, 1, -42280>>, <<42896, 42898, 2, 1>>,
      <<42902, 42920, 2, 1>>, <<42922, 42922, 1, -42308>>, <<42923, 42923, 1, -42319>>,
      <<42924, 42924, 1, -42315>>, <<42925, 42925, 1, -42305>>, <<42926, 42926, 1, -42308>>,
      <<42928, 42928, 1, -42258>>, <<42929, 42929, 1, -42282>>, <<42930, 42930, 1, -42261>>,
      <<42931, 42931, 1, 928>>, <<42932, 42942, 2, 1>>, <<42946, 42946, 1, 1>>,
      <<42948, 42948, 1, -48>>, <<42949, 42949, 1, -42307>>, <<42950, 42950, 1, -35384>>,
      <<42951, 42953, 2, 1>>, <<42997, 42997, 1, 1>>, <<65313, 65338, 1, 32>>,
      <<66560, 66599, 1, 40>>, <<66736, 66771, 1, 40>>, <<68736, 68786, 1, 64>>,
      <<71840, 71871, 1, 32>>, <<93760, 93791, 1, 32>>, <<125184, 125217, 1, 34>> }

\* unicode.ToLower on one rune: ASCII is decided without the table, as in
\* the unicode package
LowerRune(c) ==
    IF c < 128
    THEN (IF c \in 65..90 THEN c + 32 ELSE c)
    ELSE LET hit == { r \in LowerRanges :
                        c >= r[1] /\ c <= r[2] /\ (c - r[1]) % r[3] = 0 }
         IN  IF hit = {} THEN c ELSE c + (CHOOSE r \in hit : TRUE)[4]

\* strings.ToLower
ToLower(s) == [i \in 1..Len(s) |-> LowerRune(s[i])]

\* len(s) of a Go string: its length in bytes, the sum of the lengths of the
\* UTF-8 encodings of its runes (1 byte below U+0080, 2 below U+0800,
\* 3 below U+10000, 4 from there)
ByteLen(s) ==
    Len(s) + Cardinality({i \in 1..Len(s) : s[i] >= 128})
           + Cardinality({i \in 1..Len(s) : s[i] >= 2048})
           + Cardinality({i \in 1..Len(s) : s[i] >= 65536})

\* the class [\w-] of the regexp package: [0-9A-Za-z_] and '-'
IsWordOrHyphen(c) == c \in (48..57) \cup (65..90) \cup (97..122) \cup {95, 45}

\* self.filter.Find(b) != nil for filter = regexp.MustCompile("[^\\w-]")
FilterFinds(s) == \E i \in 1..Len(s) : ~IsWordOrHyphen(s[i])

\* -------------------------------------------------------------- JSON values
JStr(s) == [t |-> "string", s |-> s, n |-> 0, e |-> ""]
JNum(n) == [t |-> "number", s |-> <<>>, n |-> n, e |-> ""]
JNull == [t |-> "null", s |-> <<>>, n |-> 0, e |-> ""]
JArr == [t |-> "array", s |-> <<>>, n |-> 0, e |-> ""]
\* a number whose value is fixed outside this file, named by e
JSym(e) == [t |-> "number", s |-> <<>>, n |-> 0, e |-> e]

EmptyMap == [k \in {} |-> JNull]
Has(m, k) == k \in DOMAIN m
Put(m, k, v) == (k :> v) @@ m
\* m[k] == nil : the key is absent or holds JSON null
IsNilVal(m, k) == ~Has(m, k) \/ m[k].t = "null"
\* m[k].(string) does not panic
IsString(m, k) == Has(m, k) /\ m[k].t = "string"
\* a JsMap value that may be the nil map
MapVal(m) == [isNil |-> FALSE, m |-> m]
NilMap == [isNil |-> TRUE, m |-> EmptyMap]

\* ------------------------------------------------------------------ errors
NoErr == "nil"
UnknownCommandError == "unknown-command"
InvalidCommandError == "invalid-command"
MissingDataError == "missing-data"
InvalidDataError == "invalid-data"
StorageError == "storage-error"

\* sperrors.ErrToStatus: the status and the message of an error
ErrToStatus(err) == <<JSym(err), [t |-> "string", s |-> <<>>, n |-> 0, e |-> err]>>

\* ---------------------------------------------------------------- commands
HELLO == "HELLO"
REGIS == "REGIS"
DIE == "DIE"
FLUSH == "FLUSH"
\* PushCommand{Command, Arguments}; a response carries a status in Command
PushCommand(c, args) == [Command |-> [name |-> c, n |-> 0], Arguments |-> args]
Response(status, args) == [Command |-> [name |-> "status", n |-> status], Arguments |-> args]
NoCommand == PushCommand("none", NilMap)
\* the JSON number a Command is written as
JCommand(c) == [t |-> "number", s |-> <<>>, n |-> c.n, e |-> IF c.name = "status" THEN "" ELSE c.name]

\* ------------------------------------------------------------------- state
VARIABLES
    uaid,      \* sock.Uaid of the Run loop's PushWS
    state,     \* self.state
    spc,       \* sniffer: "receive", "send" (in <- buffer), "die", "close", "done"
    sbuf,      \* the buffer the sniffer decoded
    rpc,       \* Run: "select", "hello_send", "hello_recv", "regis_send",
               \*      "regis_recv", "flush_die", "unwind", "done"
    buffer,    \* the message the Run loop is handling
    err,       \* error outcome of the current iteration of the Run loop
    la,        \* lastAccessed of the Flush in progress
    cmd,       \* command a handler is sending on sock.Scmd
    defers,    \* deferred functions registered by Run (line 162)
    dpc,       \* dispatcher: "idle" (receiving on Scmd), "respond"
    dcmd,      \* command the dispatcher is answering
    dres,      \* the response the dispatcher sent last
    runDies,   \* times the Run goroutine sent DIE and closed the socket
    dieRecv,   \* DIE commands the dispatcher received
    sent,      \* frames written to the socket in the current iteration
    calls,     \* Storage calls made in the current iteration
    iter,      \* what the current iteration started from
    nread,     \* frames read so far
    ncmd,      \* commands pushed on sock.Ccmd so far
    ccmdDie,   \* a DIE command was taken from sock.Ccmd
    lastRead,  \* kind of the frame the sniffer read last
    log,       \* what the Run goroutine did in the current iteration, in order
    sockOps    \* the operations each goroutine has performed on sock.Socket

vars == <<uaid, state, spc, sbuf, rpc, buffer, err, la, cmd, defers, dpc, dcmd, dres,
          runDies, dieRecv, sent, calls, iter, nread, ncmd, ccmdDie, lastRead, log,
          sockOps>>

\* ---------------------------------------------------------------- handlers
\* A handler is a function from the context it starts in to the set of
\* contexts it can end in (Storage and the dispatcher choose the outcome).
\* next: "return" (handler returned err), "replied" (Run already replied),
\*       "hello_send" / "regis_send" (blocked on sock.Scmd <- cmd),
\*       "flush_die" (Flush blocked on sock.Scmd <- DIE), "panic".
\* one Storage call: the operation, its arguments and the result Storage gave
Call(op, u, chid, n, res) == [op |-> op, uaid |-> u, chid |-> chid, n |-> n, res |-> res]

Return(c, e) == [c EXCEPT !.err = e, !.next = "return"]

\* one step of the Run goroutine, recorded in order
Did(c, what) == [c EXCEPT !.log = Append(@, what)]

\* a frame is written to the socket
Send(c, frame) == Did([c EXCEPT !.sent = Append(@, frame)], "write")

\* a call of sock.Store
Store(c, call) == Did([c EXCEPT !.calls = Append(@, call)], call.op)

\* Worker.handleError
handleError(c, message, e) ==
    Send(c, Put(Put(message, "status", ErrToStatus(e)[1]), "error", ErrToStatus(e)[2]))

\* the updates envelope Store.GetUpdates returns when there are updates
Updates == Put(EmptyMap, "updates", JArr)

\* Flush as it would be without the return of lines 416-418: a notification
\* is written also when there are no updates
FlushRestWritesAlways(c) ==
    LET called(res) ==
            Store(c, Call("GetUpdates", c.uaid, <<>>, c.la, res))
    IN  { Return(handleError(called(StorageError),
                             Put(EmptyMap, "messageType", JStr(S_notification)),
                             StorageError), NoErr),
          Return(Send(called(NoErr),
                      Put(EmptyMap, "messageType", JStr(S_notification))), NoErr),
          Return(Send(called("updates"),
                      Put(Updates, "messageType", JStr(S_notification))), NoErr) }

\* Worker.Flush from the call of Store.GetUpdates on (lines 410-421)
FlushRest(c) ==
    LET called(res) ==
            Store(c, Call("GetUpdates", c.uaid, <<>>, c.la, res))
    IN  { Return(handleError(called(StorageError),
                             Put(EmptyMap, "messageType", JStr(S_notification)),
                             StorageError), NoErr),
          Return(called(NoErr), NoErr),
          Return(Send(called("updates"),
                      Put(Updates, "messageType", JStr(S_notification))), NoErr) }

\* Worker.Flush
Flush(c, lastAccessed) ==
    LET c1 == [c EXCEPT !.la = lastAccessed]
    IN  IF c1.uaid = <<>>
        THEN { [c1 EXCEPT !.next = "flush_die"] }
        ELSE FlushRest(c1)

\* Worker.Ping
Ping(c) ==
    { Return(Send(c, Put(Put(EmptyMap, "messageType", c.buffer.m["messageType"]),
                         "status", JNum(200))), NoErr) }

\* len(sock.Uaid) > UAID_MAX_LEN of line 245
UaidTooLong(u) == ByteLen(u) > UAID_MAX_LEN

\* line 238 as it would be if it did not compare the two UAIDs
UaidConflictAnyPresented(cur, presented) == Len(cur) > 0 /\ Len(presented) > 0

\* line 238: the socket has a UAID and the hello presents another one
UaidConflict(cur, presented) ==
    Len(cur) > 0 /\ Len(presented) > 0 /\ cur # presented

\* Worker.Hello up to the send on sock.Scmd (lines 229-260)
HelloPre(c, minted) ==
    LET data == IF Has(c.buffer.m, "uaid") THEN c.buffer.m
                ELSE Put(c.buffer.m, "uaid", JStr(<<>>))
        c1 == [c EXCEPT !.buffer = MapVal(data)]
        hello(cx) == [cx EXCEPT !.next = "hello_send",
                         !.cmd = PushCommand(HELLO,
                                   MapVal(Put(Put(EmptyMap, "uaid", JStr(cx.uaid)),
                                              "chids", data["channelIDs"])))]
    IN  IF IsNilVal(data, "channelIDs") THEN { Return(c1, MissingDataError) }
        ELSE IF Len(c1.uaid) > 0 /\ ~IsString(data, "uaid")
             THEN { Return(c1, InvalidDataError) }
        ELSE IF UaidConflict(c1.uaid, data["uaid"].s)
             THEN { Return(c1, InvalidCommandError) }
        ELSE IF Len(c1.uaid) = 0
             THEN IF ~IsString(data, "uaid") THEN { Return(c1, InvalidDataError) }
                  ELSE LET c2 == [c1 EXCEPT !.uaid = data["uaid"].s]
                       IN  IF UaidTooLong(c2.uaid) THEN { Return(c2, InvalidDataError) }
                           ELSE IF Len(c2.uaid) = 0
                                THEN { hello([c2 EXCEPT !.uaid = minted]) }
                                ELSE { hello(c2) }
        ELSE { hello(c1) }

\* Worker.Hello from the receive on sock.Scmd on (lines 261-278)
HelloPost(c, result) ==
    LET called(res) ==
            Store(c, Call("SetUAIDHost", c.uaid, <<>>, 0, res))
        replied == Send(called(NoErr),
                        Put(Put(Put(EmptyMap, "messageType", c.buffer.m["messageType"]),
                                "status", JCommand(result.Command)),
                            "uaid", JStr(c.uaid)))
    IN  { Return(called(StorageError), StorageError) }
        \cup Flush(Did([replied EXCEPT !.state = ACTIVE], "ACTIVE"), 0)

\* line 302 as it would be if Ack flushed whatever Store.Ack returned
AckAlwaysFlushes(ackErr) == TRUE

\* line 302: Ack flushes when Store.Ack returned no error
AckThenFlush(ackErr) == ackErr = NoErr

\* Worker.Ack
Ack(c) ==
    IF c.uaid = <<>> THEN { Return(c, InvalidCommandError) }
    ELSE IF IsNilVal(c.buffer.m, "updates") THEN { Return(c, MissingDataError) }
    ELSE LET called(res) == Store(c, Call("Ack", c.uaid, <<>>, 0, res))
             after(res) == IF AckThenFlush(res) THEN Flush(called(res), 0)
                           ELSE { Return(called(res), res) }
         IN  after(NoErr) \cup after(StorageError)

\* the channelID passes the checks of lines 330-335
ChidAccepted(appid) ==
    /\ ~(ByteLen(appid) > CHID_MAX_LEN)
    /\ ~FilterFinds(ToLower(appid))

\* Worker.Register up to the send on sock.Scmd (lines 322-346)
RegisterPre(c) ==
    LET data == c.buffer.m
    IN  IF c.uaid = <<>> THEN { Return(c, InvalidCommandError) }
        ELSE IF IsNilVal(data, "channelID") THEN { Return(c, MissingDataError) }
        ELSE IF ~IsString(data, "channelID") THEN { Return(c, InvalidDataError) }
        ELSE IF ~ChidAccepted(data["channelID"].s) THEN { Return(c, InvalidDataError) }
        ELSE LET called(res) ==
                     Store(c, Call("RegisterAppID", c.uaid, data["channelID"].s, 0, res))
             IN  { Return(called(StorageError), StorageError),
                   [called(NoErr) EXCEPT !.next = "regis_send",
                                  !.cmd = PushCommand(REGIS, MapVal(data))] }

\* Worker.Register from the receive on sock.Scmd on (lines 347-358)
RegisterPost(c, result) ==
    LET data == c.buffer.m
    IN  IF result.Arguments.isNil \/ ~IsString(result.Arguments.m, "pushEndpoint")
        THEN { Return(c, InvalidDataError) }
        ELSE { Return(Send(c, [messageType |-> data["messageType"],
                               uaid |-> JStr(c.uaid),
                               status |-> JNum(200),
                               channelID |-> data["channelID"],
                               pushEndpoint |-> JStr(result.Arguments.m["pushEndpoint"].s)]),
                      NoErr) }

\* Unregister as it would be if it returned the error of Store.DeleteAppID
UnregisterErrReturned(deleteErr) == deleteErr

\* the error Worker.Unregister returns after Store.DeleteAppID (line 389)
UnregisterErr(deleteErr) == NoErr

\* Worker.Unregister
Unregister(c) ==
    LET data == c.buffer.m
    IN  IF c.uaid = <<>> THEN { Return(c, InvalidCommandError) }
        ELSE IF IsNilVal(data, "channelID") THEN { Return(c, MissingDataError) }
        ELSE IF ~IsString(data, "channelID") THEN { Return(c, InvalidDataError) }
        ELSE LET appid == data["channelID"].s
                 called(res) ==
                     Store(c, Call("DeleteAppID", c.uaid, appid, 0, res))
             IN  { Return(Send(called(deleteErr), [messageType |-> data["messageType"],
                                        status |-> JNum(200),
                                        channelID |-> JStr(appid)]),
                          UnregisterErr(deleteErr)) : deleteErr \in {NoErr, StorageError} }

\* ---------------------------------------------------------------- Run loop
\* the break statements as they would be if they left the for loop
AfterBreakLeavesLoop == "exit"

\* where the break statements of lines 187 and 208 continue: they leave the
\* select statement, so the for loop goes on
AfterBreak == "select"

\* the Run loop as it would be without the coercion of empty buffers
CoerceNothing(m) == m

\* lines 175-178: empty buffers are "pings"
Coerce(m) ==
    IF Cardinality(DOMAIN m) = 0 THEN Put(m, "messageType", JStr(S_ping)) ELSE m

\* the body of case buffer := <-in from line 170 to the handler call
Handle(c, minted) ==
    IF c.buffer.isNil THEN { [c EXCEPT !.next = "panic"] }
    ELSE LET b == Coerce(c.buffer.m)
             c1 == [c EXCEPT !.buffer = MapVal(b)]
         IN  IF ~Has(b, "messageType")
             THEN { [handleError(c1, EmptyMap, UnknownCommandError)
                       EXCEPT !.err = UnknownCommandError, !.next = "replied"] }
             ELSE IF ~IsString(b, "messageType") THEN { [c1 EXCEPT !.next = "panic"] }
             ELSE LET mt == ToLower(b["messageType"].s)
                  IN  IF mt = S_hello THEN HelloPre(c1, minted)
                      ELSE IF mt = S_ack THEN Ack(c1)
                      ELSE IF mt = S_register THEN RegisterPre(c1)
                      ELSE IF mt = S_unregister THEN Unregister(c1)
                      ELSE IF mt = S_ping THEN Ping(c1)
                      ELSE { Return(c1, UnknownCommandError) }

\* lines 206-209: the error reply after a handler returned
RunTail(c) ==
    IF c.next = "return"
    THEN IF c.err # NoErr
         THEN [handleError(c, c.buffer.m, c.err) EXCEPT !.next = AfterBreak]
         ELSE [c EXCEPT !.next = "select"]
    ELSE IF c.next = "replied" THEN [c EXCEPT !.next = AfterBreak]
    ELSE IF c.next = "panic" THEN [c EXCEPT !.next = "unwind"]
    ELSE c

\* the socket operations of the Run goroutine among the steps l: the
\* websocket.JSON.Send of lines 133, 269, 357, 385, 421 and 426 and the
\* Socket.Close of lines 167 and 408
RunSocketOps(l) ==
    { <<"run", "write">> : i \in { j \in 1..Len(l) : l[j] = "write" } }
    \cup { <<"run", "close">> : i \in { j \in 1..Len(l) : l[j] = "Close" } }

CurCtx ==
    [uaid |-> uaid, state |-> state, buffer |-> buffer, sent |-> sent, calls |-> calls,
     err |-> err, la |-> la, cmd |-> cmd, log |-> log, next |-> "return"]

Apply(c) ==
    LET f == RunTail(c)
    IN  /\ uaid' = f.uaid
        /\ state' = f.state
        /\ buffer' = f.buffer
        /\ sent' = f.sent
        /\ calls' = f.calls
        /\ err' = f.err
        /\ la' = f.la
        /\ cmd' = f.cmd
        /\ log' = f.log
        /\ sockOps' = sockOps \cup RunSocketOps(f.log)
        /\ rpc' = f.next

\* ------------------------------------------------------------------ inputs
U1 == <<117, 49>>
U100 == Rep(117, UAID_MAX_LEN)
U101 == Rep(117, UAID_MAX_LEN + 1)
\* the UAID GenUUID4 mints
MintedUAIDs == { Rep(102, 32) }

C_ok == <<65, 98, 45, 95, 57>>
C_dot == <<97, 46, 98>>
C_slash == <<97, 47, 98>>
C_kelvin == <<8490>>
\* "\u0130d", whose lower case is "id"
C_idot == <<304, 100>>
ChannelIDs ==
    { <<>>, C_ok, C_dot, C_slash, C_kelvin, C_idot, Rep(97, CHID_MAX_LEN), Rep(97, CHID_MAX_LEN + 1) }

Msg(mt) == Put(EmptyMap, "messageType", JStr(mt))

HelloMsgs ==
    { Put(Msg(S_hello), "channelIDs", JArr),
      Put(Msg(S_HELLO), "uaid", JStr(U1)) }
    \cup { Put(Put(Msg(S_hello), "channelIDs", JArr), "uaid", u) :
             u \in {JStr(U1), JStr(U100), JStr(U101), JNum(5)} }

RegisterMsgs ==
    { Msg(S_register), Put(Msg(S_register), "channelID", JNum(5)) }
    \cup { Put(Msg(S_register), "channelID", JStr(c)) : c \in ChannelIDs }

UnregisterMsgs ==
    { Msg(S_unregister) }
    \cup { Put(Msg(S_unregister), "channelID", v) : v \in {JStr(C_ok), JNum(5)} }

AckMsgs == { Msg(S_ack), Put(Msg(S_ack), "updates", JArr) }

OtherMsgs ==
    { EmptyMap, Msg(S_ping), Msg(S_PING), Msg(S_PdotNG), Msg(S_bogus),
      Put(EmptyMap, "messageType", JNum(5)),
      Put(EmptyMap, "channelID", JStr(C_ok)) }

Messages == HelloMsgs \cup RegisterMsgs \cup UnregisterMsgs \cup AckMsgs \cup OtherMsgs

\* what one websocket.Message.Receive and json.Unmarshal can yield:
\* a read error, a zero-length payload, an undecodable payload, JSON null,
\* a JSON object
Frame(kind, buf) == [kind |-> kind, buf |-> buf]
Frames ==
    { Frame("error", NilMap), Frame("empty", NilMap), Frame("garbage", NilMap),
      Frame("json", NilMap) }
    \cup { Frame("json", MapVal(m)) : m \in Messages }

\* time.Now().UTC().Unix() of line 158
UnixNow == 1

\* the statuses the dispatcher answers a hello with
HelloStatuses == {200, 503}

\* the endpoint the dispatcher mints for a channelID
Endpoint(chid) == <<104, 116, 116, 112, 115, 58, 47, 47, 120, 47>> \o chid

\* the dispatcher's response to a command
DispatcherResponse(c, status) ==
    IF c.Command.name = REGIS
    THEN Response(200, MapVal(Put(EmptyMap, "pushEndpoint",
                                  JStr(Endpoint(c.Arguments.m["channelID"].s)))))
    ELSE Response(status, NilMap)

\* -------------------------------------------------------------- derived state
\* DIE commands sent on sock.Scmd so far
dieSent == runDies + (IF spc \in {"close", "done"} THEN 1 ELSE 0)
\* Socket.Close() calls so far
closed == runDies + (IF spc = "done" THEN 1 ELSE 0)

NoIter ==
    [src |-> "none", msg |-> NilMap, state0 |-> INACTIVE, uaid0 |-> <<>>, runDies0 |-> 0,
     closed0 |-> 0, cmd |-> "none"]

Init ==
    /\ uaid = <<>>
    /\ state = INACTIVE
    /\ spc = "receive"
    /\ sbuf = NilMap
    /\ rpc = "select"
    /\ buffer = NilMap
    /\ err = NoErr
    /\ la = 0
    /\ cmd = NoCommand
    /\ defers = 0
    /\ dpc = "idle"
    /\ dcmd = NoCommand
    /\ dres = NoCommand
    /\ runDies = 0
    /\ dieRecv = 0
    /\ sent = <<>>
    /\ calls = <<>>
    /\ iter = NoIter
    /\ nread = 0
    /\ ncmd = 0
    /\ ccmdDie = FALSE
    /\ lastRead = "none"
    /\ log = <<>>
    /\ sockOps = {}

\* ----------------------------------------------------------------- sniffer
\* the sniffer as it would be if it answered an undecodable frame itself
SnifferSocketOpsReplies(f) ==
    { <<"sniffer", "read">> }
    \cup (IF f.kind = "garbage" THEN { <<"sniffer", "write">> } ELSE {})

\* the socket operations of one turn of the sniffer's loop: the
\* websocket.Message.Receive of line 95
SnifferSocketOps(f) == { <<"sniffer", "read">> }

\* one turn of the sniffer's loop up to the send on `in` (lines 93-120)
SnifferReceive(f) ==
    /\ spc = "receive"
    /\ IF closed > 0 THEN f.kind = "error" /\ nread' = nread
       ELSE nread < MaxFrames /\ nread' = nread + 1
    /\ spc' = CASE f.kind = "json" -> "send"
                [] f.kind = "empty" -> "receive"
                [] OTHER -> "die"
    /\ sbuf' = IF f.kind = "json" THEN f.buf ELSE sbuf
    /\ lastRead' = f.kind
    /\ sockOps' = sockOps \cup SnifferSocketOps(f)
    /\ UNCHANGED <<dres, uaid, state, rpc, buffer, err, la, cmd, defers, dpc, dcmd,
                   runDies, dieRecv, sent, calls, iter, ncmd, ccmdDie, log>>

\* line 125, the dispatcher receives the DIE
SnifferDie ==
    /\ spc = "die" /\ dpc = "idle"
    /\ spc' = "close"
    /\ dieRecv' = dieRecv + 1
    /\ UNCHANGED <<sockOps, dres, uaid, state, sbuf, rpc, buffer, err, la, cmd, defers, dpc, dcmd,
                   runDies, sent, calls, iter, nread, ncmd, ccmdDie, lastRead, log>>

\* line 126
SnifferClose ==
    /\ spc = "close"
    /\ spc' = "done"
    /\ sockOps' = sockOps \cup { <<"sniffer", "close">> }
    /\ UNCHANGED <<dres, uaid, state, sbuf, rpc, buffer, err, la, cmd, defers, dpc, dcmd,
                   runDies, dieRecv, sent, calls, iter, nread, ncmd, ccmdDie, lastRead, log>>

\* ---------------------------------------------------------------- Run loop
\* the Run loop as it would be if it went back to its select while a handler
\* waits for the dispatcher
AtSelectOrWaiting == rpc \in {"select", "hello_recv", "regis_recv"}

\* the Run goroutine is at the select of line 147: handlers are called from
\* the select's cases and return before the for loop comes back to it
AtSelect == rpc = "select"

StartIter(src, msg, c) ==
    [src |-> src, msg |-> msg, state0 |-> state, uaid0 |-> uaid, runDies0 |-> runDies,
     closed0 |-> closed, cmd |-> c]

\* case buffer := <-in (lines 161-209), up to the first blocking operation
RunRecvIn ==
    /\ spc = "send" /\ AtSelect
    /\ spc' = "receive"
    /\ defers' = defers + 1
    /\ iter' = StartIter("in", sbuf, "none")
    /\ \E minted \in MintedUAIDs :
         \E c \in Handle([CurCtx EXCEPT !.buffer = sbuf, !.sent = <<>>, !.calls = <<>>,
                                        !.err = NoErr, !.log = <<>>], minted) :
            Apply(c)
    /\ UNCHANGED <<dres, sbuf, dpc, dcmd, runDies, dieRecv, nread, ncmd, ccmdDie, lastRead>>

\* case cmd := <-sock.Ccmd (lines 148-160), up to the first blocking operation
RunRecvCcmd(c) ==
    /\ AtSelect
    /\ ncmd < MaxCmds
    /\ ncmd' = ncmd + 1
    /\ iter' = StartIter("ccmd", NilMap, c)
    /\ ccmdDie' = (ccmdDie \/ c = DIE)
    /\ LET c0 == [CurCtx EXCEPT !.sent = <<>>, !.calls = <<>>, !.err = NoErr, !.log = <<>>]
       IN  IF c = FLUSH
           THEN \E c1 \in Flush(c0, UnixNow) : Apply(c1)
           ELSE Apply(c0)
    /\ UNCHANGED <<dres, spc, sbuf, defers, dpc, dcmd, runDies, dieRecv, nread, lastRead>>

\* sock.Scmd <- cmd of lines 260 and 346, received by the dispatcher
RunSendScmd ==
    /\ rpc \in {"hello_send", "regis_send"}
    /\ dpc = "idle"
    /\ dpc' = "respond"
    /\ dcmd' = cmd
    /\ rpc' = IF rpc = "hello_send" THEN "hello_recv" ELSE "regis_recv"
    /\ log' = Append(log, cmd.Command.name)
    /\ UNCHANGED <<sockOps, dres, uaid, state, spc, sbuf, buffer, err, la, cmd, defers,
                   runDies, dieRecv, sent, calls, iter, nread, ncmd, ccmdDie, lastRead>>

\* the handler goes on with the value it received from sock.Scmd
Resume(result) ==
    LET c0 == Did(CurCtx, result.Command.name)
    IN  \E c \in (IF rpc = "hello_recv" THEN HelloPost(c0, result)
                  ELSE RegisterPost(c0, result)) :
           Apply(c)

\* result := <-sock.Scmd of lines 261 and 347 receives the dispatcher's response
DispatcherRespond(status) ==
    /\ rpc \in {"hello_recv", "regis_recv"}
    /\ dpc = "respond"
    /\ dpc' = "idle"
    /\ dcmd' = NoCommand
    /\ dres' = DispatcherResponse(dcmd, status)
    /\ Resume(DispatcherResponse(dcmd, status))
    /\ UNCHANGED <<spc, sbuf, defers, runDies, dieRecv, iter, nread, ncmd, ccmdDie, lastRead>>

\* result := <-sock.Scmd of lines 261 and 347 receives the sniffer's DIE
SnifferDieToHandler ==
    /\ spc = "die"
    /\ rpc \in {"hello_recv", "regis_recv"}
    /\ spc' = "close"
    /\ Resume(PushCommand(DIE, NilMap))
    /\ UNCHANGED <<dres, sbuf, defers, dpc, dcmd, runDies, dieRecv, iter, nread, ncmd, ccmdDie, lastRead>>

\* Flush with an empty UAID: lines 407-408, then the rest of Flush
RunFlushDie ==
    /\ rpc = "flush_die"
    /\ dpc = "idle"
    /\ runDies' = runDies + 1
    /\ dieRecv' = dieRecv + 1
    /\ \E c \in FlushRest(Did(Did(CurCtx, DIE), "Close")) : Apply(c)
    /\ UNCHANGED <<dres, spc, sbuf, defers, dpc, dcmd, iter, nread, ncmd, ccmdDie, lastRead>>

\* one deferred function of line 162 runs while Run unwinds from a panic
RunDeferred ==
    /\ rpc = "unwind"
    /\ dpc = "idle"
    /\ runDies' = runDies + 1
    /\ dieRecv' = dieRecv + 1
    /\ defers' = defers - 1
    /\ rpc' = IF defers = 1 THEN "done" ELSE "unwind"
    /\ sockOps' = sockOps \cup { <<"run", "close">> }
    /\ UNCHANGED <<dres, uaid, state, spc, sbuf, buffer, err, la, cmd, dpc, dcmd,
                   sent, calls, iter, nread, ncmd, ccmdDie, lastRead, log>>

Next ==
    \/ \E f \in Frames : SnifferReceive(f)
    \/ SnifferDie
    \/ SnifferClose
    \/ RunRecvIn
    \/ \E c \in {FLUSH, DIE} : RunRecvCcmd(c)
    \/ RunSendScmd
    \/ \E status \in HelloStatuses : DispatcherRespond(status)
    \/ SnifferDieToHandler
    \/ RunFlushDie
    \/ RunDeferred

Spec == Init /\ [][Next]_vars

TypeOK ==
    /\ state \in {INACTIVE, ACTIVE}
    /\ spc \in {"receive", "send", "die", "close", "done"}
    /\ rpc \in {"select", "hello_send", "hello_recv", "regis_send", "regis_recv",
                "flush_die", "unwind", "done"}
    /\ dpc \in {"idle", "respond"}
    /\ defers \in 0..MaxFrames
    /\ nread \in 0..MaxFrames
    /\ ncmd \in 0..MaxCmds
    /\ sockOps \subseteq {"sniffer", "run"} \X {"read", "write", "close"}

\* the scheduler runs every goroutine that can take a step, the dispatcher
\* keeps receiving from sock.Scmd, and a read on a closed socket fails; the
\* client and the dispatcher's pushes on sock.Ccmd are under no obligation
FairSpec ==
    /\ Spec
    /\ WF_vars(closed > 0 /\ \E f \in Frames : SnifferReceive(f))
    /\ WF_vars(SnifferDie \/ SnifferDieToHandler)
    /\ WF_vars(SnifferClose)
    /\ WF_vars(RunRecvIn)
    /\ WF_vars(RunSendScmd)
    /\ WF_vars(\E status \in HelloStatuses : DispatcherRespond(status))
    /\ WF_vars(RunFlushDie)
    /\ WF_vars(RunDeferred)

\* ------------------------------------------------------------------ claims
\* the message is an object whose messageType lower-cases to t
IsType(b, t) ==
    /\ ~b.isNil
    /\ IsString(b.m, "messageType")
    /\ ToLower(b.m["messageType"].s) = t

\* the frame is an error reply for the error e
IsErrorReply(f, e) ==
    /\ Has(f, "status") /\ f["status"] = ErrToStatus(e)[1]
    /\ Has(f, "error") /\ f["error"] = ErrToStatus(e)[2]

\* the Run loop answered the current inbound message with one error reply for e
RepliedError(e) ==
    /\ rpc = "select"
    /\ Len(sent) = 1
    /\ IsErrorReply(sent[1], e)

\* C1: while no hello has succeeded (self.state = INACTIVE), a register,
\* unregister or ack message is answered with an invalid-command error reply,
\* makes no Storage call and sends no register command to the dispatcher.
C1_InactiveRejects ==
    (/\ iter.src = "in"
     /\ iter.state0 = INACTIVE
     /\ \E t \in {S_register, S_unregister, S_ack} : IsType(iter.msg, t))
    => (/\ RepliedError(InvalidCommandError)
        /\ calls = <<>>)

\* C2: at most one DIE is sent on sock.Scmd and the socket is closed at most
\* once over the life of a session, and once the sniffer or the Run loop has
\* exited exactly one DIE and one Close have happened.
C2_OneDieOneClose ==
    /\ dieSent <= 1
    /\ closed <= 1
    /\ (spc = "done" \/ rpc = "done") => (dieSent = 1 /\ closed = 1)

\* C3: after a hello has succeeded the UAID is non-empty, at most
\* UAID_MAX_LEN long and keeps its value; a later hello presenting another
\* non-empty UAID is rejected with invalid-command.
C3_UaidFixed ==
    /\ state = ACTIVE => (uaid # <<>> /\ ByteLen(uaid) <= UAID_MAX_LEN)
    /\ iter.state0 = ACTIVE => uaid = iter.uaid0
    /\ (/\ iter.src = "in"
        /\ iter.state0 = ACTIVE
        /\ IsType(iter.msg, S_hello)
        /\ ~IsNilVal(iter.msg.m, "channelIDs")
        /\ IsString(iter.msg.m, "uaid")
        /\ iter.msg.m["uaid"].s \notin {<<>>, iter.uaid0})
       => RepliedError(InvalidCommandError)

\* C4: once the Run loop has taken a DIE command from sock.Ccmd it handles no
\* further message or flush: it is tearing down (DIE, Close) or has returned.
C4_DieTerminates == ccmdDie => rpc \in {"unwind", "done"}

\* C5: once the sniffer has left its loop (read or decode error) both the
\* sniffer and the Run loop eventually exit, and once the Run loop has
\* exited the sniffer eventually exits.
C5_BothExit ==
    /\ (spc \in {"die", "close", "done"}) ~> (spc = "done" /\ rpc = "done")
    /\ (rpc = "done") ~> (spc = "done")

\* C6: between messages the UAID is empty as long as no hello has succeeded,
\* in particular after a hello that failed; a first hello presenting a UAID
\* of exactly UAID_MAX_LEN bytes is not rejected as invalid-data.
C6_EmptyUntilHello ==
    /\ (state = INACTIVE /\ rpc = "select") => uaid = <<>>
    /\ (/\ iter.src = "in"
        /\ iter.uaid0 = <<>>
        /\ IsType(iter.msg, S_hello)
        /\ IsString(iter.msg.m, "uaid")
        /\ ByteLen(iter.msg.m["uaid"].s) = UAID_MAX_LEN)
       => err # InvalidDataError

\* the string matches ^[0-9a-z_-]+$
MatchesChidPattern(s) ==
    /\ Len(s) >= 1
    /\ \A i \in 1..Len(s) : s[i] \in (48..57) \cup (97..122) \cup {95, 45}

\* the channelID is one the specification allows
ChidAllowed(chid) ==
    /\ ByteLen(chid) <= CHID_MAX_LEN
    /\ MatchesChidPattern(ToLower(chid))

\* C7: every channelID passed to Store.RegisterAppID is at most CHID_MAX_LEN
\* long with a lower-case form matching ^[0-9a-z_-]+$, and a register with
\* any other channelID string is answered invalid-data without a
\* RegisterAppID call.
C7_ChannelIDFilter ==
    /\ \A i \in 1..Len(calls) :
          calls[i].op = "RegisterAppID" => ChidAllowed(calls[i].chid)
    /\ (/\ iter.src = "in"
        /\ iter.uaid0 # <<>>
        /\ IsType(iter.msg, S_register)
        /\ IsString(iter.msg.m, "channelID")
        /\ ~ChidAllowed(iter.msg.m["channelID"].s))
       => (RepliedError(InvalidDataError) /\ calls = <<>>)

\* an unregister with a string channelID arrived on an active session
UnregisterOnActive ==
    /\ iter.src = "in"
    /\ iter.state0 = ACTIVE
    /\ IsType(iter.msg, S_unregister)
    /\ IsString(iter.msg.m, "channelID")

\* C8: on an active session an unregister carrying a (string) channelID is
\* answered with exactly one frame {messageType, status: 200, channelID} and
\* no error reply, whatever Store.DeleteAppID(uaid, channelID, false) returned.
C8_UnregisterAlways200 ==
    UnregisterOnActive
    => (/\ rpc = "select"
        /\ err = NoErr
        /\ sent = << [messageType |-> iter.msg.m["messageType"],
                      status |-> JNum(200),
                      channelID |-> iter.msg.m["channelID"]] >>
        /\ Len(calls) = 1
        /\ calls[1].op = "DeleteAppID"
        /\ calls[1].uaid = uaid
        /\ calls[1].chid = iter.msg.m["channelID"].s)

\* C8 witness: the unregister was answered although DeleteAppID failed
C8_Witness ==
    /\ UnregisterOnActive
    /\ Len(calls) = 1
    /\ calls[1].res = StorageError
    /\ Len(sent) = 1

\* C9: when handling an inbound message yields an error, the Run loop has
\* written exactly one error reply with the status and error of that error,
\* has sent no DIE and closed nothing, and is back at its select.
C9_ErrorReplyContinues ==
    (iter.src = "in" /\ err # NoErr)
    => (/\ RepliedError(err)
        /\ runDies = iter.runDies0)

\* C9 witness: an inbound message after the first one was answered with an
\* error reply
C9_Witness ==
    /\ iter.src = "in"
    /\ err \in {UnknownCommandError, InvalidCommandError, MissingDataError,
                InvalidDataError, StorageError}
    /\ Len(sent) = 1
    /\ defers >= 2
    /\ rpc = "select"

PingReply == [messageType |-> JStr(S_ping), status |-> JNum(200)]

\* the Run loop takes an empty object or a ping from `in` and answers it as
\* a ping, leaving uaid and state alone
EmptyObjectIsPing ==
    (/\ spc = "send" /\ rpc = "select" /\ spc' = "receive"
     /\ sbuf \in {MapVal(EmptyMap), MapVal(Msg(S_ping))})
    => (/\ sent' = <<PingReply>>
        /\ err' = NoErr
        /\ uaid' = uaid
        /\ state' = state
        /\ rpc' = "select")

\* the sniffer has just read a zero-length payload
ReadsZeroLength == lastRead' = "empty" /\ nread' = nread + 1

\* C10 as stated: a zero-length payload is passed to the Run loop as a
\* ping is, and an empty object is answered exactly like a ping.
C10_EmptyFrameIsPing ==
    [][/\ EmptyObjectIsPing
       /\ ReadsZeroLength => (spc' = "send" /\ Coerce(sbuf'.m) = Msg(S_ping))]_vars

\* C10 amended: an empty JSON object is answered exactly like a ping; a
\* zero-length payload is dropped by the sniffer, nothing is passed to the
\* Run loop and nothing is written.
C10_EmptyObjectIsPing ==
    [][/\ EmptyObjectIsPing
       /\ ReadsZeroLength => (spc' = "receive" /\ UNCHANGED <<sbuf, rpc, sent, uaid, state>>)]_vars

\* C10 witness: an empty object was answered as a ping and the sniffer then
\* read a zero-length payload
C10_Witness ==
    /\ iter.src = "in"
    /\ iter.msg = MapVal(EmptyMap)
    /\ sent = <<PingReply>>
    /\ lastRead = "empty"
    /\ spc = "receive"

\* a hello arrived and its handler has returned nil
HelloReturnedNil ==
    /\ iter.src = "in"
    /\ IsType(iter.msg, S_hello)
    /\ rpc = "select"
    /\ err = NoErr

\* a hello arrived, got as far as Store.SetUAIDHost, and that call failed
HelloSetHostFailed ==
    /\ iter.src = "in"
    /\ IsType(iter.msg, S_hello)
    /\ rpc = "select"
    /\ Len(calls) >= 1
    /\ calls[1].op = "SetUAIDHost"
    /\ calls[1].res = StorageError

\* the steps of a hello up to the call of Store.SetUAIDHost
HelloSteps == <<HELLO, "status", "SetUAIDHost">>

\* C11: a successful hello sends HELLO to the dispatcher, receives the
\* dispatcher's response, calls SetUAIDHost, writes {messageType, status,
\* uaid} with the dispatcher's status, becomes ACTIVE and runs Flush(0), in
\* this order; a notification with updates follows the reply iff GetUpdates
\* returned updates; when SetUAIDHost fails there is no hello reply, no change
\* of phase and no Flush.
C11_HelloOrder ==
    /\ HelloReturnedNil =>
          /\ log \in { HelloSteps \o <<"write", "ACTIVE", "GetUpdates">>,
                       HelloSteps \o <<"write", "ACTIVE", "GetUpdates", "write">> }
          /\ sent[1] = [messageType |-> iter.msg.m["messageType"],
                        status |-> JNum(dres.Command.n),
                        uaid |-> JStr(uaid)]
          /\ state = ACTIVE
          /\ calls[2].n = 0
          /\ (calls[2].res = "updates")
               <=> (Len(sent) = 2 /\ sent[2] = Put(Updates, "messageType", JStr(S_notification)))
    /\ HelloSetHostFailed =>
          /\ log = HelloSteps \o <<"write">>
          /\ RepliedError(StorageError)
          /\ state = iter.state0

\* a register with an allowed channelID on an active session
RegisterOnActive ==
    /\ iter.src = "in"
    /\ iter.state0 = ACTIVE
    /\ IsType(iter.msg, S_register)
    /\ IsString(iter.msg.m, "channelID")
    /\ ChidAllowed(iter.msg.m["channelID"].s)

\* C12: on an active session with UAID U, a register with a valid channelID C
\* first calls Store.RegisterAppID(U, C, 0); only after it succeeded is REGIS
\* sent to the dispatcher, and the single reply is {messageType, uaid: U,
\* status: 200, channelID: C, pushEndpoint: the endpoint of the dispatcher's
\* response}; when RegisterAppID fails nothing is sent to the dispatcher and
\* the storage error is the one error reply.
C12_RegisterOrder ==
    RegisterOnActive =>
        /\ Len(calls) = 1
        /\ calls[1] = Call("RegisterAppID", iter.uaid0, iter.msg.m["channelID"].s, 0,
                           calls[1].res)
        /\ log[1] = "RegisterAppID"
        /\ rpc \in {"regis_send", "regis_recv"} => calls[1].res = NoErr
        /\ (rpc = "select" /\ calls[1].res = NoErr) =>
              /\ log = <<"RegisterAppID", REGIS, "status", "write">>
              /\ err = NoErr
              /\ sent = << [messageType |-> iter.msg.m["messageType"],
                            uaid |-> JStr(iter.uaid0),
                            status |-> JNum(200),
                            channelID |-> iter.msg.m["channelID"],
                            pushEndpoint |-> dres.Arguments.m["pushEndpoint"]] >>
        /\ (rpc = "select" /\ calls[1].res # NoErr) =>
              /\ log = <<"RegisterAppID", "write">>
              /\ RepliedError(StorageError)

\* the positions of the GetUpdates calls in the steps of the iteration
FlushAt == { i \in 1..Len(log) : log[i] = "GetUpdates" }

\* what the Flush whose GetUpdates is step i of the iteration did afterwards
FlushOutcome(i) ==
    LET call == calls[Len(calls)]
        rest == SubSeq(log, i + 1, Len(log))
        note == Put(EmptyMap, "messageType", JStr(S_notification))
    IN  /\ call.op = "GetUpdates"
        /\ call.uaid = uaid
        /\ call.n = la
        /\ call.res = "updates" =>
              rest = <<"write">> /\ sent[Len(sent)] = Put(Updates, "messageType",
                                                          JStr(S_notification))
        /\ call.res = StorageError =>
              /\ rest = <<"write">>
              /\ sent[Len(sent)] = Put(Put(note, "status", ErrToStatus(StorageError)[1]),
                                       "error", ErrToStatus(StorageError)[2])
        /\ call.res = NoErr => rest = <<>>

\* C13: every Flush on a session with a non-empty UAID calls
\* Store.GetUpdates(uaid, lastAccessed) once and then writes at most one
\* frame: one notification carrying the updates when there are updates, one
\* error reply with messageType notification when GetUpdates failed, nothing
\* when there are no updates; a FLUSH on sock.Ccmd runs exactly one such Flush,
\* with lastAccessed the current time.
C13_FlushOnce ==
    (iter.uaid0 # <<>> /\ rpc = "select") =>
        /\ Cardinality(FlushAt) <= 1
        /\ \A i \in FlushAt : FlushOutcome(i)
        /\ (iter.src = "ccmd" /\ iter.cmd = FLUSH) =>
              /\ Cardinality(FlushAt) = 1
              /\ log[1] = "GetUpdates"
              /\ la = UnixNow
              /\ Len(sent) = Len(log) - 1

\* C13 witness: a FLUSH on sock.Ccmd found updates and one notification was
\* written
C13_Witness ==
    /\ iter.src = "ccmd" /\ iter.cmd = FLUSH /\ iter.uaid0 # <<>>
    /\ Len(calls) = 1 /\ calls[1].res = "updates"
    /\ Len(sent) = 1

\* C14: inbound messages are handled in the order the sniffer read them, and
\* the Run goroutine takes the next inbound message or sock.Ccmd command only
\* from its select, when the handler of the previous one (its Flush and its
\* round trip to the dispatcher included) has returned.
C14_OneHandlerAtATime ==
    [][ /\ (defers' = defers + 1 \/ ncmd' = ncmd + 1) =>
              /\ rpc = "select"
              /\ rpc' \in {"hello_send", "regis_send", "flush_die"} => iter'.src # "none"
        /\ defers' = defers + 1 =>
              /\ spc = "send" /\ spc' = "receive"
              /\ iter'.msg = sbuf
        /\ rpc \in {"hello_send", "hello_recv", "regis_send", "regis_recv", "flush_die"} =>
              /\ iter' = iter
              /\ defers' = defers /\ ncmd' = ncmd ]_vars

\* C14 witness: a handler waits for the dispatcher while the sniffer offers
\* the next inbound message
C14_Witness ==
    /\ rpc \in {"hello_recv", "regis_recv"}
    /\ spc = "send"

\* C15: the value a handler receives on sock.Scmd after sending HELLO or REGIS
\* is the dispatcher's response to that request, and every DIE sent on
\* sock.Scmd is received by the dispatcher, never by a handler.
C15_ResponseIsDispatchers ==
    /\ \A i \in 1..(Len(log) - 1) : log[i] \in {HELLO, REGIS} => log[i + 1] = "status"
    /\ dieRecv = dieSent

\* C16: once DIE was sent and the socket closed, by the sniffer, by the Run
\* goroutine or by Flush on an empty UAID, no handler and no Flush runs, no
\* Store.GetUpdates is called and no frame is written.
C16_TerminatedAbsorbing ==
    /\ iter.closed0 = 0
    /\ \A i \in 1..Len(log) : \A j \in (i + 1)..Len(log) :
          log[i] = "Close" => log[j] \notin {"GetUpdates", "write"}

\* an inbound message with a field of the wrong JSON type, or JSON null
WrongTyped(b) ==
    \/ b.isNil
    \/ Has(b.m, "messageType") /\ ~IsNilVal(b.m, "messageType") /\ ~IsString(b.m, "messageType")
    \/ /\ IsType(b, S_hello)
       /\ ~IsNilVal(b.m, "channelIDs")
       /\ Has(b.m, "uaid") /\ ~IsString(b.m, "uaid")
    \/ /\ IsType(b, S_register) \/ IsType(b, S_unregister)
       /\ iter.uaid0 # <<>>
       /\ Has(b.m, "channelID") /\ ~IsNilVal(b.m, "channelID") /\ ~IsString(b.m, "channelID")

\* C17: an inbound message with a non-string messageType, uaid or channelID,
\* or a JSON null body, is answered with one invalid-data error reply and the
\* session goes on: the Run goroutine is back at its select, no DIE was sent
\* and the socket was not closed.
C17_WrongTypesRecovered ==
    (iter.src = "in" /\ WrongTyped(iter.msg)) =>
        /\ RepliedError(InvalidDataError)
        /\ runDies = iter.runDies0

\* an ack on an active session
AckOnActive ==
    /\ iter.src = "in"
    /\ iter.state0 = ACTIVE
    /\ IsType(iter.msg, S_ack)

\* C18: on an active session an ack without updates is answered missing-data
\* with no Store.Ack call; an ack with updates calls Store.Ack(uaid, payload)
\* once and runs Flush(0) exactly when Store.Ack succeeded; when it failed
\* there is no Flush and the storage error is the one error reply.
C18_AckThenFlush ==
    AckOnActive =>
        IF IsNilVal(iter.msg.m, "updates")
        THEN calls = <<>> /\ RepliedError(MissingDataError)
        ELSE /\ rpc = "select"
             /\ log[1] = "Ack"
             /\ calls[1].op = "Ack" /\ calls[1].uaid = iter.uaid0
             /\ Cardinality({ i \in 1..Len(calls) : calls[i].op = "Ack" }) = 1
             /\ calls[1].res = NoErr =>
                   /\ Len(calls) = 2
                   /\ calls[2].op = "GetUpdates" /\ calls[2].n = 0
                   /\ log[2] = "GetUpdates"
                   /\ FlushOutcome(2)
             /\ calls[1].res # NoErr =>
                   /\ log = <<"Ack", "write">>
                   /\ RepliedError(calls[1].res)

\* C18 witness: Store.Ack failed on an active session and the error reply was
\* written
C18_Witness ==
    /\ AckOnActive
    /\ Len(calls) = 1 /\ calls[1].op = "Ack" /\ calls[1].res = StorageError
    /\ Len(sent) = 1

\* a hello with channelIDs, presenting the session's UAID or none, on a
\* session that holds a UAID
HelloAgain ==
    /\ iter.src = "in"
    /\ iter.uaid0 # <<>>
    /\ IsType(iter.msg, S_hello)
    /\ ~IsNilVal(iter.msg.m, "channelIDs")
    /\ \/ ~Has(iter.msg.m, "uaid")
       \/ IsString(iter.msg.m, "uaid") /\ iter.msg.m["uaid"].s \in {<<>>, iter.uaid0}

\* C19: a hello on a session that holds UAID U, presenting U or no UAID, is
\* not rejected for its UAID and leaves the UAID equal to U; when it returns
\* without error its reply carries uaid U, the phase is active (an active
\* session stays active throughout) and Flush(0) ran.
C19_HelloAgain ==
    HelloAgain =>
        /\ uaid = iter.uaid0
        /\ iter.state0 = ACTIVE => state = ACTIVE
        /\ rpc = "select" =>
              /\ err \in {NoErr, StorageError}
              /\ err = StorageError => calls[1].res = StorageError
              /\ err = NoErr =>
                    /\ Len(sent) >= 1
                    /\ sent[1]["uaid"] = JStr(iter.uaid0)
                    /\ sent[1]["messageType"] = iter.msg.m["messageType"]
                    /\ state = ACTIVE
                    /\ Len(calls) = 2
                    /\ calls[2].op = "GetUpdates" /\ calls[2].n = 0
                    /\ calls[2].uaid = iter.uaid0

\* C19 witness: an active session answered a second hello presenting its UAID
C19_Witness ==
    /\ HelloAgain
    /\ iter.state0 = ACTIVE
    /\ Has(iter.msg.m, "uaid")
    /\ rpc = "select" /\ err = NoErr
    /\ Len(sent) >= 1

\* C20: every frame written to the socket is written by the Run goroutine
\* (handler replies, error replies and Flush), so a session has one writer;
\* of the socket operations the sniffer performs only reads and the close on
\* its exit, and the Run goroutine never reads.
C20_SingleWriter ==
    /\ \A o \in sockOps : o[2] = "write" => o[1] = "run"
    /\ \A o \in sockOps : o[1] = "sniffer" => o[2] \in {"read", "close"}
    /\ \A o \in sockOps : o[2] = "read" => o[1] = "sniffer"
    /\ <<"sniffer", "close">> \in sockOps => spc = "done"
    /\ Len(sent) > 0 => <<"run", "write">> \in sockOps

\* C20 witness: the sniffer read an undecodable frame and closed the socket
\* after the Run goroutine had written a frame
C20_Witness ==
    /\ <<"run", "write">> \in sockOps
    /\ <<"sniffer", "close">> \in sockOps
    /\ lastRead = "garbage"

====
